---- MODULE Spec2Model ----
(***************************************************************************)
(* Model of taichi-play's triangle examples.                               *)
(*                                                                         *)
(*   qt_triangle.py : TriangleRenderer (render, rotate_colors, get_frame)  *)
(*                    driven by MainWindow (timer tick -> update_frame,    *)
(*                    button click -> on_rotate_clicked).                  *)
(*   triangle.py    : the GGUI example with its swap_colors handler.       *)
(*                                                                         *)
(* f32 values are modelled by exact fractions <<n, d>> in lowest terms     *)
(* with d > 0; the IEEE specials are the fractions with d = 0:             *)
(* <<0,0>> is NaN, <<1,0>> is +Inf and <<-1,0>> is -Inf.  Rounding of f32  *)
(* is not modelled.  Code indices 0..2 are kept as they are in the code.   *)
(***************************************************************************)
EXTENDS Integers, Sequences, FiniteSets

VARIABLES
    prog,          \* which example runs: "qt" (qt_triangle.py) or "ggui" (triangle.py)
    pc,            \* position of the GUI thread: "new", "failed", "idle", "rot0".."rot2"
    width, height, \* self.width, self.height (Unset before they are assigned)
    vertices,      \* self.vertices: [0..2 -> <<x, y>>] in tenths, or <<>> when not set up
    colors,        \* self.colors / colors: [0..2 -> <<r, g, b>>], or <<>> when not set up
    pixels,        \* self.pixels: [<<i, j>> -> <<r, g, b>>] of fractions, or <<>>
    temp_colors,   \* local of rotate_colors
    bufs,          \* the numpy byte arrays allocated so far (heap), in allocation order
    frames,        \* the references get_frame returned, as indices into bufs
    image_buffer,  \* TaichiRenderWidget.image_buffer (persistent, copied into)
    error,         \* the exception the constructor call ended with, "none" if none
    argW, argH,    \* the arguments of the constructor call
    colors0,       \* history: the colors at start
    past,          \* history: the colors before each of the last (up to 3) rotations
    rendered,      \* history: a render pass has run
    renderColors,  \* history: the three colors the last render pass read
    frameColors,   \* history: for each frame returned, the colors it was rendered with
    divByZero      \* history: the last render pass divided by a zero denominator

vars == <<prog, pc, width, height, vertices, colors, pixels, temp_colors, bufs,
          frames, image_buffer, error, argW, argH, colors0, past, rendered,
          renderColors, frameColors, divByZero>>

(***************************************************************************)
(* Bounds of the model.                                                    *)
(***************************************************************************)
Width == 4
Height == 5
MaxFrames == 2

Idx == 0 .. 2
Unset == -1000

(***************************************************************************)
(* f32 arithmetic, idealised.                                              *)
(***************************************************************************)
Abs(x) == IF x < 0 THEN -x ELSE x
Sign(x) == IF x > 0 THEN 1 ELSE IF x < 0 THEN -1 ELSE 0

RECURSIVE GCD(_, _)
GCD(a, b) == IF b = 0 THEN a ELSE GCD(b, a % b)

LCM(a, b) == (a * b) \div GCD(a, b)

NaN == <<0, 0>>
PosInf == <<1, 0>>
NegInf == <<-1, 0>>

\* the quotient n / d of two integers: x/0 is NaN for x = 0 and +-Inf otherwise
Frac(n, d) ==
    IF d = 0 THEN <<Sign(n), 0>>
    ELSE LET g == GCD(Abs(n), Abs(d))
         IN  <<(Sign(d) * n) \div g, Abs(d) \div g>>

I(n) == <<n, 1>>
IsNaN(a) == a = NaN
IsFinite(a) == a[2] # 0

FNeg(a) == <<-a[1], a[2]>>

FAdd(a, b) ==
    IF IsFinite(a) /\ IsFinite(b)
    THEN LET g == GCD(a[2], b[2])
         IN  Frac(a[1] * (b[2] \div g) + b[1] * (a[2] \div g), (a[2] \div g) * b[2])
    ELSE IF IsNaN(a) \/ IsNaN(b) THEN NaN
    ELSE IF IsFinite(a) THEN b
    ELSE IF IsFinite(b) THEN a
    ELSE IF a = b THEN a ELSE NaN

FSub(a, b) == FAdd(a, FNeg(b))

FMul(a, b) ==
    IF IsFinite(a) /\ IsFinite(b)
    THEN LET g1 == GCD(Abs(a[1]), b[2])
             g2 == GCD(Abs(b[1]), a[2])
         IN  Frac((a[1] \div g1) * (b[1] \div g2), (a[2] \div g2) * (b[2] \div g1))
    ELSE IF IsNaN(a) \/ IsNaN(b) \/ a[1] = 0 \/ b[1] = 0 THEN NaN
    ELSE <<Sign(a[1]) * Sign(b[1]), 0>>

FDiv(a, b) ==
    IF IsFinite(a) /\ IsFinite(b)
    THEN IF b[1] = 0 THEN <<Sign(a[1]), 0>>
         ELSE FMul(a, <<Sign(b[1]) * b[2], Abs(b[1])>>)
    ELSE IF IsNaN(a) \/ IsNaN(b) \/ (~IsFinite(a) /\ ~IsFinite(b)) THEN NaN
    ELSE IF IsFinite(a) THEN I(0)
    ELSE <<a[1] * (IF b[1] < 0 THEN -1 ELSE 1), 0>>

\* a < b; every comparison with NaN is false
FLess(a, b) ==
    IF IsNaN(a) \/ IsNaN(b) THEN FALSE
    ELSE IF IsFinite(a) /\ IsFinite(b) THEN a[1] * b[2] < b[1] * a[2]
    ELSE IF a = b THEN FALSE
    ELSE a = NegInf \/ b = PosInf

FMin(a, b) == IF FLess(a, b) THEN a ELSE b
FMax(a, b) == IF FLess(b, a) THEN a ELSE b

\* a >= b.  With a NaN operand IEEE says false; ti.init's default fast_math
\* lets the compiler assume there is no NaN, so the build decides: nanGE.
FGe(a, b, nanGE) == IF IsNaN(a) \/ IsNaN(b) THEN nanGE ELSE ~FLess(a, b)

\* ti.math.clamp(x, lo, hi)
Clamp(x, lo, hi) == FMin(hi, FMax(lo, x))

\* smoothstep with the clamp of t forgotten
smoothstepNoClamp(edge0, edge1, x) ==
    LET t == FDiv(FSub(x, edge0), FSub(edge1, edge0))
    IN  FMul(FMul(t, t), FSub(I(3), FMul(I(2), t)))

\* ti.math.smoothstep(edge0, edge1, x)
smoothstep(edge0, edge1, x) ==
    LET t == Clamp(FDiv(FSub(x, edge0), FSub(edge1, edge0)), I(0), I(1))
    IN  FMul(FMul(t, t), FSub(I(3), FMul(I(2), t)))

(***************************************************************************)
(* Geometry.  Vertex coordinates are kept in tenths; a point is scaled to  *)
(* integers by Scale(w, h), a multiple of 10, w and h, so that the pixel   *)
(* coordinates x = (j / w) * 2 - 1 and y = 1 - (i / h) * 2 are exact.      *)
(***************************************************************************)
Tenth == 10
ReferenceVertices ==
    [k \in Idx |-> CASE k = 0 -> <<0, 6>>
                     [] k = 1 -> <<-5, -3>>
                     [] k = 2 -> <<5, -3>>]

Red == <<1, 0, 0>>
Green == <<0, 1, 0>>
Blue == <<0, 0, 1>>
ReferenceColors ==
    [k \in Idx |-> CASE k = 0 -> Red [] k = 1 -> Green [] k = 2 -> Blue]

bg_color == <<I(1), I(1), I(1)>>
ZeroPixel == <<I(0), I(0), I(0)>>

Scale(w, h) == LCM(Tenth, LCM(w, h))

PixelIndices(w, h) == (0 .. h - 1) \X (0 .. w - 1)

\* lines 110-112: the point of pixel (row i, column j), scaled
PixelPoint(i, j, w, h) ==
    LET S == Scale(w, h)
    IN  <<(2 * j * S) \div w - S, S - (2 * i * S) \div h>>

VertexPoint(v, w, h) ==
    <<v[1] * (Scale(w, h) \div Tenth), v[2] * (Scale(w, h) \div Tenth)>>

Dot(a, b) == a[1] * b[1] + a[2] * b[2]
Minus(a, b) == <<a[1] - b[1], a[2] - b[2]>>

\* the denominator of barycentric for the triangle (v0, v1, v2)
Denom(v0, v1, v2) ==
    LET e0 == Minus(v1, v0)
        e1 == Minus(v2, v0)
    IN  Dot(e0, e0) * Dot(e1, e1) - Dot(e0, e1) * Dot(e0, e1)

barycentric(p, v0, v1, v2) ==
    LET e0 == Minus(v1, v0)
        e1 == Minus(v2, v0)
        e2 == Minus(p, v0)
        d00 == Dot(e0, e0)
        d01 == Dot(e0, e1)
        d11 == Dot(e1, e1)
        d20 == Dot(e2, e0)
        d21 == Dot(e2, e1)
        denom == d00 * d11 - d01 * d01
        v == Frac(d11 * d20 - d01 * d21, denom)
        w == Frac(d00 * d21 - d01 * d20, denom)
        u == FSub(FSub(I(1), v), w)
    IN  <<u, v, w>>

\* lines 115-118: min_bary of pixel (i, j)
MinBary(i, j, vs, w, h) ==
    LET bary == barycentric(PixelPoint(i, j, w, h), VertexPoint(vs[0], w, h),
                            VertexPoint(vs[1], w, h), VertexPoint(vs[2], w, h))
    IN  FMin(FMin(bary[1], bary[2]), bary[3])

\* -0.02, the margin of the inside test
AAMargin == Frac(-2, 100)

\* lines 122-135: the blended value of pixel (i, j)
BlendPixel(i, j, vs, cs, w, h) ==
    LET bary == barycentric(PixelPoint(i, j, w, h), VertexPoint(vs[0], w, h),
                            VertexPoint(vs[1], w, h), VertexPoint(vs[2], w, h))
        min_bary == FMin(FMin(bary[1], bary[2]), bary[3])
        aa_scale == Frac(IF w > h THEN w ELSE h, 2)
        alpha == smoothstep(I(0), FDiv(I(1), aa_scale), min_bary)
    IN  [c \in 1 .. 3 |->
            LET color == FAdd(FAdd(FMul(bary[1], I(cs[0][c])),
                                   FMul(bary[2], I(cs[1][c]))),
                              FMul(bary[3], I(cs[2][c])))
            IN  FAdd(FMul(color, alpha), FMul(bg_color[c], FSub(I(1), alpha)))]

\* lines 107-138: the body of the kernel's loop for pixel (i, j)
RenderPixel(i, j, vs, cs, w, h, nanGE) ==
    IF FGe(MinBary(i, j, vs, w, h), AAMargin, nanGE)
    THEN BlendPixel(i, j, vs, cs, w, h)
    ELSE bg_color

\* render accumulating into the field (+=) instead of overwriting it
renderAccumulate(nanGE) ==
    [p \in PixelIndices(width, height) |->
        [c \in 1 .. 3 |->
            FAdd(pixels[p][c],
                 RenderPixel(p[1], p[2], vertices, colors, width, height, nanGE)[c])]]

\* lines 95-138: the field render leaves in self.pixels
render(nanGE) ==
    [p \in PixelIndices(width, height) |->
        RenderPixel(p[1], p[2], vertices, colors, width, height, nanGE)]

(***************************************************************************)
(* get_frame: (img * 255).astype(np.uint8).  The cast truncates toward     *)
(* zero.  For a value whose truncation is outside 0..255, or that is not   *)
(* finite, the C cast behind astype is undefined: builds wrap modulo 256   *)
(* (x86) or saturate (ARM); mode names the build's outcome.                *)
(***************************************************************************)
ByteMax == 255
CastModes == {"wrap", "saturate"}

Trunc(a) == Sign(a[1]) * (Abs(a[1]) \div a[2])

ToByte(v, mode) ==
    LET x == FMul(v, I(ByteMax))
    IN  IF IsFinite(x)
        THEN LET t == Trunc(x)
             IN  IF 0 <= t /\ t <= ByteMax THEN t
                 ELSE IF mode = "wrap" THEN t % (ByteMax + 1)
                 ELSE IF t < 0 THEN 0 ELSE ByteMax
        ELSE IF mode = "saturate" /\ x = PosInf THEN ByteMax ELSE 0

\* lines 161-164: the byte image of a field
get_frame(field, mode) ==
    [p \in DOMAIN field |-> [c \in 1 .. 3 |-> ToByte(field[p][c], mode)]]

\* get_frame writing into one persistent array and returning it again
AllocFrameReuse(img) ==
    IF bufs = <<>> THEN <<img>> ELSE [bufs EXCEPT ![Len(bufs)] = img]

\* line 164: astype allocates a new array; the result of the allocation
AllocFrame(img) == Append(bufs, img)

(***************************************************************************)
(* Initial states.                                                         *)
(***************************************************************************)
Palette == {Red, Green, Blue}
\* the triples of palette colors, up to renaming the colors
ColorChoices == {c \in [Idx -> Palette] : c[0] = Red}

ZeroField(w, h) == [p \in PixelIndices(w, h) |-> ZeroPixel]

\* the state TriangleRenderer.__init__ leaves, for dimensions w, h
Constructed(w, h, vs, cs, field) ==
    /\ prog = "qt"
    /\ pc = "idle"
    /\ width = w
    /\ height = h
    /\ vertices = vs
    /\ colors = cs
    /\ pixels = field
    /\ temp_colors = <<>>
    /\ bufs = <<>>
    /\ frames = <<>>
    /\ image_buffer = <<>>
    /\ error = "none"
    /\ argW = w
    /\ argH = h
    /\ colors0 = cs
    /\ past = <<>>
    /\ rendered = FALSE
    /\ renderColors = cs
    /\ frameColors = <<>>
    /\ divByZero = FALSE

\* triangle.py: run() up to the start of the event loop
GguiStarted(cs) ==
    /\ prog = "ggui"
    /\ pc = "idle"
    /\ width = Unset
    /\ height = Unset
    /\ vertices = <<>>
    /\ colors = cs
    /\ pixels = <<>>
    /\ temp_colors = <<>>
    /\ bufs = <<>>
    /\ frames = <<>>
    /\ image_buffer = <<>>
    /\ error = "none"
    /\ argW = Unset
    /\ argH = Unset
    /\ colors0 = cs
    /\ past = <<>>
    /\ rendered = FALSE
    /\ renderColors = cs
    /\ frameColors = <<>>
    /\ divByZero = FALSE

Init ==
    \E cs \in ColorChoices :
        \/ Constructed(Width, Height, ReferenceVertices, cs, ZeroField(Width, Height))
        \/ GguiStarted(cs)

(***************************************************************************)
(* The operations.                                                         *)
(***************************************************************************)
\* slots dispatched while another slot is still running
IdleAlways == pc \in {"idle", "rot0", "rot1", "rot2"}

\* Both slots (timer.timeout, clicked) run on the one GUI thread of
\* app.exec(): a slot is dispatched only when no slot is running.
Idle == pc = "idle"

Push(h, c) == IF Len(h) < 3 THEN Append(h, c) ELSE Append(Tail(h), c)

\* rotate_colors, lines 143-147: read the three colors into temp_colors
RotateBegin ==
    /\ prog = "qt"
    /\ Idle
    /\ temp_colors' = colors
    /\ pc' = "rot0"
    /\ past' = Push(past, colors)
    /\ UNCHANGED <<prog, width, height, vertices, colors, pixels, bufs, frames,
                   image_buffer, error, argW, argH, colors0, rendered,
                   renderColors, frameColors, divByZero>>

\* the rotation written the other way round
RotSourceInverse(k) == CASE k = 0 -> 1 [] k = 1 -> 2 [] k = 2 -> 0

\* the last write taking the wrong slot
RotSourceDup(k) == CASE k = 0 -> 2 [] k = 1 -> 0 [] k = 2 -> 2

\* lines 150-152: the slot of temp_colors written to self.colors[k]
RotSource(k) == CASE k = 0 -> 2 [] k = 1 -> 0 [] k = 2 -> 1

RotStep == CASE pc = "rot0" -> 0 [] pc = "rot1" -> 1 [] pc = "rot2" -> 2
RotNext == CASE pc = "rot0" -> "rot1" [] pc = "rot1" -> "rot2" [] pc = "rot2" -> "idle"

\* rotate_colors moving the vertices along with the colors
RotateWriteWithVertices ==
    /\ prog = "qt"
    /\ pc \in {"rot0", "rot1", "rot2"}
    /\ colors' = [colors EXCEPT ![RotStep] = temp_colors[RotSource(RotStep)]]
    /\ vertices' = [vertices EXCEPT ![RotStep] = vertices[RotSource(RotStep)]]
    /\ pc' = RotNext
    /\ UNCHANGED <<prog, width, height, pixels, temp_colors, bufs, frames,
                   image_buffer, error, argW, argH, colors0, past, rendered,
                   renderColors, frameColors, divByZero>>

\* rotate_colors, lines 150-152: one of the three writes
RotateWrite ==
    /\ prog = "qt"
    /\ pc \in {"rot0", "rot1", "rot2"}
    /\ colors' = [colors EXCEPT ![RotStep] = temp_colors[RotSource(RotStep)]]
    /\ pc' = RotNext
    /\ UNCHANGED <<prog, width, height, vertices, pixels, temp_colors, bufs, frames,
                   image_buffer, error, argW, argH, colors0, past, rendered,
                   renderColors, frameColors, divByZero>>

\* the kernel divides by denom for every pixel it visits
DividesByZero ==
    /\ PixelIndices(width, height) # {}
    /\ Denom(vertices[0], vertices[1], vertices[2]) = 0

\* TriangleRenderer.render
Render ==
    /\ prog = "qt"
    /\ Idle
    /\ \E nanGE \in BOOLEAN : pixels' = render(nanGE)
    /\ rendered' = TRUE
    /\ renderColors' = colors
    /\ divByZero' = DividesByZero
    /\ UNCHANGED <<prog, pc, width, height, vertices, colors, temp_colors, bufs,
                   frames, image_buffer, error, argW, argH, colors0, past,
                   frameColors>>

\* TriangleRenderer.get_frame
GetFrame ==
    /\ prog = "qt"
    /\ Idle
    /\ Len(frames) < MaxFrames
    /\ \E mode \in CastModes :
          /\ bufs' = AllocFrame(get_frame(pixels, mode))
          /\ frames' = Append(frames, Len(bufs'))
    /\ frameColors' = Append(frameColors, <<rendered, renderColors>>)
    /\ UNCHANGED <<prog, pc, width, height, vertices, colors, pixels, temp_colors,
                   image_buffer, error, argW, argH, colors0, past, rendered,
                   renderColors, divByZero>>

\* MainWindow.update_frame: render, get_frame, update_image (np.copyto)
UpdateFrame ==
    /\ prog = "qt"
    /\ Idle
    /\ Len(frames) < MaxFrames
    /\ \E nanGE \in BOOLEAN, mode \in CastModes :
          /\ pixels' = render(nanGE)
          /\ bufs' = AllocFrame(get_frame(pixels', mode))
          /\ frames' = Append(frames, Len(bufs'))
          /\ image_buffer' = bufs'[Len(bufs')]
    /\ rendered' = TRUE
    /\ renderColors' = colors
    /\ frameColors' = Append(frameColors, <<TRUE, colors>>)
    /\ divByZero' = DividesByZero
    /\ UNCHANGED <<prog, pc, width, height, vertices, colors, temp_colors, error,
                   argW, argH, colors0, past>>

\* triangle.py swap_colors, lines 59-62, statement by statement
SwappedColors(c) ==
    LET temp == c[0]
        c1 == [c EXCEPT ![0] = c[1]]
        c2 == [c1 EXCEPT ![1] = c1[2]]
    IN  [c2 EXCEPT ![2] = temp]

SwapColors ==
    /\ prog = "ggui"
    /\ Idle
    /\ colors' = SwappedColors(colors)
    /\ past' = Push(past, colors)
    /\ UNCHANGED <<prog, pc, width, height, vertices, pixels, temp_colors, bufs,
                   frames, image_buffer, error, argW, argH, colors0, rendered,
                   renderColors, frameColors, divByZero>>

\* the two examples as they run
Next == UpdateFrame \/ RotateBegin \/ RotateWrite \/ SwapColors

Spec == Init /\ [][Next]_vars

(***************************************************************************)
(* The methods of TriangleRenderer called in any order by one caller.      *)
(***************************************************************************)
InitAPI ==
    Constructed(Width, Height, ReferenceVertices, ReferenceColors,
                ZeroField(Width, Height))

NextAPI == Render \/ GetFrame \/ RotateBegin \/ RotateWrite

SpecAPI == InitAPI /\ [][NextAPI]_vars

(***************************************************************************)
(* The renderer with three collinear vertices in self.vertices.            *)
(***************************************************************************)
Triangle(a, b, c) == [k \in Idx |-> CASE k = 0 -> a [] k = 1 -> b [] k = 2 -> c]

CollinearVertices ==
    { Triangle(<<0, 0>>, <<0, 0>>, <<0, 0>>),
      Triangle(<<-5, -3>>, <<0, -3>>, <<5, -3>>),
      Triangle(<<0, 6>>, <<0, 6>>, <<5, -3>>),
      Triangle(<<-5, -5>>, <<0, 0>>, <<5, 5>>) }

InitDegenerate ==
    \E vs \in CollinearVertices :
        Constructed(Width, Height, vs, ReferenceColors, ZeroField(Width, Height))

SpecDegenerate == InitDegenerate /\ [][NextAPI]_vars

(***************************************************************************)
(* The renderer with arbitrary values in self.pixels, for get_frame.       *)
(***************************************************************************)
SampleValues == {Frac(-3, 2), I(-1), Frac(-1, 2), Frac(1, 2), Frac(3, 2), I(2)}

SampleFields(w, h) ==
    { [p \in PixelIndices(w, h) |-> <<v, v, v>>] : v \in SampleValues }

InitExport ==
    \E f \in SampleFields(Width, Height) :
        Constructed(Width, Height, ReferenceVertices, ReferenceColors, f)

SpecExport == InitExport /\ [][NextAPI]_vars

(***************************************************************************)
(* The constructor call TriangleRenderer(width, height).                   *)
(***************************************************************************)
WidthArgs == {-1, 0, Width}
HeightArgs == {0, Height}

InitNew ==
    /\ prog = "qt"
    /\ pc = "new"
    /\ width = Unset
    /\ height = Unset
    /\ vertices = <<>>
    /\ colors = <<>>
    /\ pixels = <<>>
    /\ temp_colors = <<>>
    /\ bufs = <<>>
    /\ frames = <<>>
    /\ image_buffer = <<>>
    /\ error = "none"
    /\ argW = Unset
    /\ argH = Unset
    /\ colors0 = <<>>
    /\ past = <<>>
    /\ rendered = FALSE
    /\ renderColors = <<>>
    /\ frameColors = <<>>
    /\ divByZero = FALSE

\* TriangleRenderer.__init__.  The code checks nothing: width and height are
\* stored first, then ti.Vector.field is given the shape.  What the field
\* library does with a shape that is not positive is not in this repository:
\* it rejects it with an error of its own, or yields an empty field.
Construct ==
    /\ pc = "new"
    /\ \E w \in WidthArgs, h \in HeightArgs, accepted \in BOOLEAN :
          /\ argW' = w
          /\ argH' = h
          /\ width' = w
          /\ height' = h
          /\ IF (w > 0 /\ h > 0) \/ accepted
             THEN /\ pixels' = ZeroField(w, h)
                  /\ vertices' = ReferenceVertices
                  /\ colors' = ReferenceColors
                  /\ colors0' = ReferenceColors
                  /\ renderColors' = ReferenceColors
                  /\ error' = "none"
                  /\ pc' = "idle"
             ELSE /\ error' = "LibraryError"
                  /\ pc' = "failed"
                  /\ UNCHANGED <<pixels, vertices, colors, colors0, renderColors>>
    /\ UNCHANGED <<prog, temp_colors, bufs, frames, image_buffer, past, rendered,
                   frameColors, divByZero>>

NextNew == Construct \/ UpdateFrame \/ RotateBegin \/ RotateWrite

SpecNew == InitNew /\ [][NextNew]_vars

(***************************************************************************)
(* Properties.                                                             *)
(***************************************************************************)
Distinct3(c) == c[0] # c[1] /\ c[1] # c[2] /\ c[0] # c[2]
LastPast == past[Len(past)]
Range(f) == {f[k] : k \in DOMAIN f}
White == <<ByteMax, ByteMax, ByteMax>>

\* C1 as stated: whichever example runs, a finished rotation has put the old
\* color 2 at index 0, the old color 0 at index 1 and the old color 1 at index 2.
C1_EveryRotationIsTheSameStep ==
    (Idle /\ past # <<>>) =>
        /\ colors[0] = LastPast[2]
        /\ colors[1] = LastPast[0]
        /\ colors[2] = LastPast[1]

\* C1 amended: rotate_colors (qt_triangle.py) performs that step; swap_colors
\* (triangle.py) performs the inverse step: new 0 = old 1, new 1 = old 2,
\* new 2 = old 0.
C1_RotationStepPerExample ==
    (Idle /\ past # <<>>) =>
        /\ prog = "qt" =>
              /\ colors[0] = LastPast[2]
              /\ colors[1] = LastPast[0]
              /\ colors[2] = LastPast[1]
        /\ prog = "ggui" =>
              /\ colors[0] = LastPast[1]
              /\ colors[1] = LastPast[2]
              /\ colors[2] = LastPast[0]

C1_Witness ==
    /\ prog = "qt"
    /\ Idle
    /\ past # <<>>
    /\ Distinct3(LastPast)
    /\ colors # LastPast

SameMultiset(c, d) ==
    \A x \in Range(c) \cup Range(d) :
        Cardinality({k \in Idx : c[k] = x}) = Cardinality({k \in Idx : d[k] = x})

\* C2: between rotations the stored colors are the initial colors as a
\* multiset, and after three rotations (renders and frame exports in between
\* or not) every index holds the color it held three rotations before.
C2_RotationPreservesColors ==
    Idle =>
        /\ SameMultiset(colors, colors0)
        /\ Len(past) = 3 => colors = past[1]

C2_Witness ==
    /\ prog = "qt"
    /\ Idle
    /\ Len(past) = 3
    /\ Distinct3(colors)
    /\ \E k \in 1 .. Len(frameColors) : frameColors[k][2] = past[2]

WholeRotations(c) ==
    { c,
      [k \in Idx |-> CASE k = 0 -> c[2] [] k = 1 -> c[0] [] k = 2 -> c[1]],
      [k \in Idx |-> CASE k = 0 -> c[1] [] k = 1 -> c[2] [] k = 2 -> c[0]] }

\* C3: under the driver of qt_triangle.py the three colors a render pass reads
\* are the initial colors permuted by a whole number of rotations, and so are
\* the colors every exported frame was rendered with.
C3_RenderNeverSeesPartialRotation ==
    (prog = "qt" /\ rendered) =>
        /\ renderColors \in WholeRotations(colors0)
        /\ \A k \in 1 .. Len(frameColors) :
              frameColors[k][2] \in WholeRotations(colors0)

C3_Witness ==
    /\ prog = "qt"
    /\ rendered
    /\ Distinct3(colors0)
    /\ renderColors # colors0
    /\ pc = "rot1"
    /\ colors \notin WholeRotations(colors0)

Collinear == Denom(vertices[0], vertices[1], vertices[2]) = 0

\* C4 as stated: rendering three collinear vertices divides by no zero
\* denominator, leaves no NaN or Inf in a pixel, and leaves every pixel
\* equal to the background color.
C4_DegenerateRendersBackground ==
    (prog = "qt" /\ rendered /\ Collinear) =>
        /\ ~divByZero
        /\ \A p \in DOMAIN pixels :
              /\ \A c \in 1 .. 3 : IsFinite(pixels[p][c])
              /\ pixels[p] = bg_color

\* C5 as stated: a constructor call with width <= 0 or height <= 0 ends with
\* an InvalidDimensions error and sets up no pixel field, vertices or colors.
C5_InvalidDimensionsRaised ==
    (pc # "new" /\ (argW <= 0 \/ argH <= 0)) =>
        /\ error = "InvalidDimensions"
        /\ pixels = <<>>
        /\ vertices = <<>>
        /\ colors = <<>>

ClampedByte(v) ==
    LET t == Trunc(FMul(v, I(ByteMax)))
    IN  IF t < 0 THEN 0 ELSE IF t > ByteMax THEN ByteMax ELSE t

\* C6 as stated: every byte get_frame returns is the truncation of v * 255
\* clamped to 0..255, for every channel value v of the field.
C6_ExportClamps ==
    [][Len(frames') > Len(frames) =>
          \A p \in DOMAIN pixels' : \A c \in 1 .. 3 :
              bufs'[frames'[Len(frames')]][p][c] = ClampedByte(pixels'[p][c])]_vars

\* C7: a byte image get_frame returned keeps its contents through every
\* later call; each call returns an array no earlier call returned; and
\* get_frame leaves the pixel field, the colors and the vertices unchanged.
C7_FramesAreFreshAndKept ==
    [][/\ \A k \in 1 .. Len(frames) :
             /\ frames'[k] = frames[k]
             /\ bufs'[frames[k]] = bufs[frames[k]]
       /\ Len(frames') > Len(frames) =>
             /\ frames'[Len(frames')] \notin Range(frames)
             /\ pixels' = pixels
             /\ colors' = colors
             /\ vertices' = vertices]_vars

C7_Witness ==
    /\ Len(frames) = 2
    /\ rendered
    /\ past # <<>>
    /\ frameColors[1][1] = FALSE
    /\ bufs[frames[1]] # bufs[frames[2]]

\* C8: under the driver, the image of a frame depends only on the colors it
\* was rendered with (vertices and dimensions being fixed), not on what the
\* field held before: frames rendered with the same colors are byte-identical,
\* and each has all width x height pixels.
C8_RenderIsDeterministic ==
    \A a, b \in 1 .. Len(frames) :
        /\ DOMAIN bufs[frames[a]] = PixelIndices(width, height)
        /\ frameColors[a] = frameColors[b] => bufs[frames[a]] = bufs[frames[b]]

C8_Witness ==
    /\ Len(frames) = 2
    /\ frameColors[1] = frameColors[2]
    /\ \E p \in DOMAIN bufs[frames[1]] : bufs[frames[1]][p] # White
    /\ \E p \in DOMAIN bufs[frames[1]] : bufs[frames[1]][p] = White

\* C9: no call changes the vertices; a step of render or get_frame leaves
\* the colors unchanged; a step of rotate_colors leaves the pixel field
\* unchanged.
C9_FrameConditions ==
    [][/\ vertices' = vertices
       /\ (rendered' # rendered \/ renderColors' # renderColors
             \/ pixels' # pixels \/ frames' # frames) => colors' = colors
       /\ (pc' # pc \/ colors' # colors) => pixels' = pixels]_vars

C9_Witness ==
    /\ prog = "qt"
    /\ rendered
    /\ frames # <<>>
    /\ Len(past) = 2
    /\ Idle
    /\ colors # colors0
    /\ vertices = ReferenceVertices

\* C10: after a render, every pixel whose min_bary is below -0.02 holds the
\* background color and the blend computes the background color there too;
\* and every pixel with min_bary <= 0 holds the background color.
C10_ShortCircuitEqualsBlend ==
    (prog = "qt" /\ rendered) =>
        \A p \in DOMAIN pixels :
            LET mb == MinBary(p[1], p[2], vertices, width, height)
            IN  /\ FLess(mb, AAMargin) =>
                      /\ pixels[p] = bg_color
                      /\ BlendPixel(p[1], p[2], vertices, colors, width, height)
                            = bg_color
                /\ (FLess(mb, I(0)) \/ mb = I(0)) => pixels[p] = bg_color

C10_Witness ==
    /\ prog = "qt"
    /\ rendered
    /\ Distinct3(colors)
    /\ \E p \in DOMAIN pixels :
          FLess(MinBary(p[1], p[2], vertices, width, height), AAMargin)
    /\ \E p \in DOMAIN pixels :
          MinBary(p[1], p[2], vertices, width, height) = I(0)
    /\ \E p \in DOMAIN pixels : pixels[p] # bg_color

====
